---- MODULE Spec2Model ----
(***************************************************************************)
(* pyGraKPI: one aggregation cycle (run, src/main.py) over a cityIO grid.  *)
(* The cycle reads the header into a Table, fetches the grid, builds one   *)
(* GeoJSON feature per grid index, loads the category catalog, walks the   *)
(* cells accumulating six area totals, filters the features and posts.     *)
(*                                                                         *)
(* Python values: None is the string "None"; a dict is a function whose    *)
(* DOMAIN is its key set (a missing key is a key outside the DOMAIN, and   *)
(* reading it raises KeyError); a list or tuple is a sequence, read with   *)
(* Python's 0-based index.  An uncaught exception ends the cycle in        *)
(* pc = "aborted" with its name in err; nothing catches it in run.         *)
(***************************************************************************)
EXTENDS Integers, Sequences, FiniteSets, TLC

VARIABLES pc, err, header, gridDef, gridData, geojson, typejs, cell_id,
          bld_living, bld_commerce, bld_special, os_green, os_sports, os_play,
          sent, service, changes, oldHash, gridHash, run_gridHash

vars == <<pc, err, header, gridDef, gridData, geojson, typejs, cell_id,
          bld_living, bld_commerce, bld_special, os_green, os_sports, os_play,
          sent, service, changes, oldHash, gridHash, run_gridHash>>

\* The cityIO service with the count of its changes, and the two variables
\* of the polling loop (oldHash and the module-level gridHash, 676-682).
\* run_gridHash is the gridHash local to run (528).
env == <<service, changes>>
poll == <<oldHash, gridHash>>

totals == <<bld_living, bld_commerce, bld_special, os_green, os_sports, os_play>>

(***************************************************************************)
(* Bounds of the explored inputs.                                          *)
(***************************************************************************)
MaxCells == 2
MaxLevels == 2
MaxCols == 2
MaxRows == 2
MaxChanges == 2

None == "None"
EmptyDict == [k \in {} |-> None]
\* The empty string that oldHash starts as (676), written so that it can be
\* compared with a hash and with {}.
EmptyString == [text |-> ""]

\* Use-codes that type records carry, and the ones the catalog may list.
UseCodes == {"a", "b"}
CatalogCodes == {"a"}
CellSizes == {3}

(***************************************************************************)
(* Python semantics used by the code.                                      *)
(***************************************************************************)
\* Truthiness of a use-code: None and the empty string are falsy.
Truthy(v) == v /= None /\ v /= ""

\* list[i] with Python's negative indices; "IndexError" when out of range.
PyIndexOK(lst, i) == i >= 0 - Len(lst) /\ i < Len(lst)
PyGet(lst, i) == IF i >= 0 THEN lst[i + 1] ELSE lst[Len(lst) + i + 1]

\* list.index(v): position of the first occurrence, 0-based.
PyHas(lst, v) == \E k \in 1..Len(lst) : lst[k] = v
PyIndexOf(lst, v) == (CHOOSE k \in 1..Len(lst) :
                         lst[k] = v /\ \A j \in 1..(k - 1) : lst[j] /= v) - 1

\* str(n) for a natural number.
Digit(d) == <<"0", "1", "2", "3", "4", "5", "6", "7", "8", "9">>[d + 1]
RECURSIVE str(_)
str(n) == IF n < 10 THEN Digit(n) ELSE str(n \div 10) \o Digit(n % 10)

(***************************************************************************)
(* Inputs: the header, the grid and the category catalog are supplied by   *)
(* the service and by typedefs.json; the sets below are the ones explored. *)
(***************************************************************************)
Restrict(f, D) == [k \in D |-> f[k]]
Without(f, key) == Restrict(f, DOMAIN f \ {key})

\* mapping.type entries: the two variants, a record of another type and a
\* record without a "type" field.
BuildingRecords == {[type |-> "building", bld_useGround |-> g,
                     bld_useUpper |-> u, bld_numLevels |-> n] :
                       g \in UseCodes \cup {None}, u \in UseCodes \cup {None},
                       n \in 0..MaxLevels}
OpenSpaceRecords == {[type |-> "open_space", os_type |-> t] : t \in UseCodes}
OtherRecords == {[type |-> "street"], [name |-> "untyped"]}
TypeRecords == BuildingRecords \cup OpenSpaceRecords \cup OtherRecords

\* mapping.type is a list of type records: empty, one record, or any record
\* followed by an open space or by an untyped record.
SecondRecords == {[type |-> "open_space", os_type |-> "a"], [name |-> "untyped"]}
TypeTables == {<<>>} \cup {<<r>> : r \in TypeRecords}
                \cup {<<r, s>> : r \in TypeRecords, s \in SecondRecords}

\* block: the attribute names of a cell tuple, "type" first or second.
Blocks == {<<"type", "rotation">>, <<"rotation", "type">>}

\* The grid has ncols*nrows cells.
Shapes == {[ncols |-> 1, nrows |-> r] : r \in 0..MaxCells}

Header(cs, shape, table, block) ==
    [spatial |-> [cellSize |-> cs, ncols |-> shape.ncols, nrows |-> shape.nrows,
                  rotation |-> 0, latitude |-> 53, longitude |-> 10],
     mapping |-> [type |-> table],
     block   |-> block]

WellFormedHeaders == {Header(cs, shape, table, block) :
                        cs \in CellSizes, shape \in Shapes,
                        table \in TypeTables, block \in Blocks}

\* Headers that lack one required entry, and the empty object that a failed
\* fetch yields (getCurrentState returns {}).
SampleHeader == Header(3, [ncols |-> 1, nrows |-> 1],
                       <<[type |-> "building", bld_useGround |-> "a",
                          bld_useUpper |-> "a", bld_numLevels |-> 2]>>,
                       <<"type", "rotation">>)
MalformedHeaders ==
    {EmptyDict}
    \cup {Without(SampleHeader, k) : k \in {"spatial", "mapping", "block"}}
    \cup {[SampleHeader EXCEPT !.spatial = Without(@, k)] :
            k \in {"cellSize", "ncols", "nrows", "rotation", "latitude", "longitude"}}
    \cup {[SampleHeader EXCEPT !.mapping = EmptyDict],
          [SampleHeader EXCEPT !.block = <<"rotation">>]}

Headers == WellFormedHeaders \cup MalformedHeaders

\* A cell is null or a tuple laid out as block says, its type-index at
\* typeidx.  The null cell is written as the empty tuple, which no cell is.
NullCell == <<>>
\* Its type-index is one of the table's indices or the first one past them.
Cell(t, typeidx) == IF typeidx = 0 THEN <<t, 0>> ELSE <<0, t>>
Cells(table) == {NullCell} \cup
                {Cell(t, table.typeidx) : t \in 0..Len(table.mapping)}
Grids(table) == [1..(table.ncols * table.nrows) -> Cells(table)]

\* typedefs.json: two groups of category lists; a category may be missing.
CatalogLists == (SUBSET CatalogCodes) \ {{}}
Categories(keys) == UNION {[D -> CatalogLists] : D \in SUBSET keys}
Typedefs == {[buildinguses |-> b, openspacetypes |-> o] :
               b \in Categories({"living", "commerce", "special"}),
               o \in Categories({"green", "sports", "playgrounds"})}

\* The hash the service publishes under meta/hashes/grid: a value that
\* determines the grid contents.
Hash(grid) == [hash_of |-> grid]

\* The service: the header and the grid it holds, and whether a GET reaches
\* it and is answered with status 200.
Services ==
    UNION {{[header |-> h, grid |-> g, reachable |-> TRUE] :
              g \in Grids([ncols |-> h.spatial.ncols, nrows |-> h.spatial.nrows,
                           mapping |-> h.mapping.type,
                           typeidx |-> PyIndexOf(h.block, "type")])} :
           h \in WellFormedHeaders}
    \cup {[header |-> h, grid |-> <<>>, reachable |-> TRUE] : h \in MalformedHeaders}
    \cup {[header |-> SampleHeader, grid |-> <<>>, reachable |-> FALSE]}

\* Services for the geometry: grids of several columns and rows, all cells
\* null, with the cell sizes, bearings and positions below.
GeoHeaders ==
    {[Header(cs, [ncols |-> c, nrows |-> r], <<>>, <<"type", "rotation">>)
        EXCEPT !.spatial.rotation = rot,
               !.spatial.latitude = lat,
               !.spatial.longitude = lon] :
       cs \in {3, 10}, c \in 1..MaxCols, r \in 1..MaxRows,
       rot \in {0, 90}, lat \in {0, 53}, lon \in {0, 10}}
GeoServices ==
    {[header |-> h,
      grid |-> [k \in 1..(h.spatial.ncols * h.spatial.nrows) |-> NullCell],
      reachable |-> TRUE] : h \in GeoHeaders}

\* Services for the polling loop: one header with a building and an open
\* space type, and the grids of one cell over it.
LoopHeader == Header(3, [ncols |-> 1, nrows |-> 1],
                     <<[type |-> "building", bld_useGround |-> "a",
                        bld_useUpper |-> "a", bld_numLevels |-> 2],
                       [type |-> "open_space", os_type |-> "a"]>>,
                     <<"type", "rotation">>)
LoopGrids == Grids([ncols |-> 1, nrows |-> 1, mapping |-> LoopHeader.mapping.type,
                    typeidx |-> 0])
LoopServices == {[header |-> LoopHeader, grid |-> g, reachable |-> TRUE] :
                   g \in LoopGrids}

\* getCurrentState (470-491): the JSON of the topic, or {} when the request
\* fails.
getCurrentState(topic) ==
    IF ~service.reachable THEN EmptyDict
    ELSE IF topic = "header" THEN service.header
    ELSE IF topic = "grid" THEN service.grid
    ELSE Hash(service.grid)

(***************************************************************************)
(* Table.fromCityIO (src/main.py 432-444).  The entries are read in the    *)
(* order of the code; the first missing one raises.  The origin is the     *)
(* external CRS transform of (latitude, longitude), kept as a term.        *)
(***************************************************************************)
Raise(e) == [ok |-> FALSE, error |-> e]

\* The two CRS transforms are pyproj's (442-443, 611); their equations are
\* not part of this program.  input_crs -> compute_crs yields the numbers
\* that Local2Geo adds to, so it is given a fixed stand-in that keeps the two
\* axes apart and maps (0, 0) to (0, 0); compute_crs -> output_crs is kept
\* as a pair of terms naming the component and the point transformed.
InputToCompute(lat, lon) == <<100 * lon, 100 * lat>>
ComputeToOutput(a, b) == <<[component |-> 0, of |-> <<a, b>>],
                           [component |-> 1, of |-> <<a, b>>]>>

\* fromCityIO falling back on the class-level nrows = 0 (line 430) when the
\* header has no spatial.nrows.
fromCityIODefaultRows(data) ==
    IF "spatial" \notin DOMAIN data THEN Raise("KeyError:header")
    ELSE IF "cellSize" \notin DOMAIN data.spatial THEN Raise("KeyError:header")
    ELSE IF "ncols" \notin DOMAIN data.spatial THEN Raise("KeyError:header")
    ELSE IF "mapping" \notin DOMAIN data THEN Raise("KeyError:header")
    ELSE IF "type" \notin DOMAIN data.mapping THEN Raise("KeyError:header")
    ELSE IF "block" \notin DOMAIN data THEN Raise("KeyError:header")
    ELSE IF ~PyHas(data.block, "type") THEN Raise("ValueError:header")
    ELSE IF "rotation" \notin DOMAIN data.spatial THEN Raise("KeyError:header")
    ELSE IF "latitude" \notin DOMAIN data.spatial THEN Raise("KeyError:header")
    ELSE IF "longitude" \notin DOMAIN data.spatial THEN Raise("KeyError:header")
    ELSE [ok |-> TRUE,
          table |-> [cellSize |-> data.spatial.cellSize,
                     ncols |-> data.spatial.ncols,
                     nrows |-> IF "nrows" \in DOMAIN data.spatial
                                 THEN data.spatial.nrows ELSE 0,
                     mapping |-> data.mapping.type,
                     typeidx |-> PyIndexOf(data.block, "type"),
                     tablerotation |-> data.spatial.rotation,
                     origin |-> InputToCompute(data.spatial.latitude,
                                               data.spatial.longitude)]]

fromCityIO(data) ==
    IF "spatial" \notin DOMAIN data THEN Raise("KeyError:header")
    ELSE IF "cellSize" \notin DOMAIN data.spatial THEN Raise("KeyError:header")
    ELSE IF "ncols" \notin DOMAIN data.spatial THEN Raise("KeyError:header")
    ELSE IF "nrows" \notin DOMAIN data.spatial THEN Raise("KeyError:header")
    ELSE IF "mapping" \notin DOMAIN data THEN Raise("KeyError:header")
    ELSE IF "type" \notin DOMAIN data.mapping THEN Raise("KeyError:header")
    ELSE IF "block" \notin DOMAIN data THEN Raise("KeyError:header")
    ELSE IF ~PyHas(data.block, "type") THEN Raise("ValueError:header")
    ELSE IF "rotation" \notin DOMAIN data.spatial THEN Raise("KeyError:header")
    ELSE IF "latitude" \notin DOMAIN data.spatial THEN Raise("KeyError:header")
    ELSE IF "longitude" \notin DOMAIN data.spatial THEN Raise("KeyError:header")
    ELSE [ok |-> TRUE,
          table |-> [cellSize |-> data.spatial.cellSize,
                     ncols |-> data.spatial.ncols,
                     nrows |-> data.spatial.nrows,
                     mapping |-> data.mapping.type,
                     typeidx |-> PyIndexOf(data.block, "type"),
                     tablerotation |-> data.spatial.rotation,
                     origin |-> InputToCompute(data.spatial.latitude,
                                               data.spatial.longitude)]]

(***************************************************************************)
(* Table.Local2Geo (449-460).  The bearings explored are quarter turns,    *)
(* whose cosine and sine are taken as exact.                               *)
(***************************************************************************)
Cos(deg) == IF deg = 0 THEN 1 ELSE IF deg = 180 THEN 0 - 1 ELSE 0
Sin(deg) == IF deg = 90 THEN 1 ELSE IF deg = 270 THEN 0 - 1 ELSE 0

\* Local2Geo without the flip of the y axis.
Local2GeoNoFlip(cityio, x, y) ==
    LET bearing == cityio.tablerotation
        x1 == x * cityio.cellSize
        y1 == y * cityio.cellSize
        new_x == x1 * Cos(bearing) - y1 * Sin(bearing)
        new_y == x1 * Sin(bearing) + y1 * Cos(bearing)
    IN <<new_x + cityio.origin[1], new_y + cityio.origin[2]>>

Local2Geo(cityio, x, y) ==
    LET bearing == cityio.tablerotation
        x1 == x * cityio.cellSize
        y1 == y * (0 - cityio.cellSize)
        new_x == x1 * Cos(bearing) - y1 * Sin(bearing)
        new_y == x1 * Sin(bearing) + y1 * Cos(bearing)
    IN <<new_x + cityio.origin[1], new_y + cityio.origin[2]>>

(***************************************************************************)
(* makeGeoJSON / appendPolyFeatures / PolyToGeoJSON (598-661) followed by  *)
(* json.loads: one feature per grid index, its id the text str(idx), its   *)
(* geometry the ring of the four reprojected corners of the cell closed by *)
(* the first, each coordinate written second component first, and its      *)
(* properties empty.                                                       *)
(***************************************************************************)
PolyToGeoJSON(points, id, properties) ==
    [type |-> "Feature",
     id |-> str(id),
     geometry |-> [type |-> "Polygon",
                   coordinates |->
                     <<[k \in 1..(Len(points) + 1) |->
                          IF k <= Len(points) THEN <<points[k][2], points[k][1]>>
                                              ELSE <<points[1][2], points[1][1]>>]>>],
     properties |-> properties]

\* 613-632: the corners of the cell at idx, each through Local2Geo and the
\* transform to the output CRS.
Reprojected(p) == ComputeToOutput(p[1], p[2])
pointlist(cityio, idx) ==
    LET x == idx % cityio.ncols
        y == idx \div cityio.ncols
    IN <<Reprojected(Local2Geo(cityio, x, y)),
         Reprojected(Local2Geo(cityio, x + 1, y)),
         Reprojected(Local2Geo(cityio, x + 1, y + 1)),
         Reprojected(Local2Geo(cityio, x, y + 1))>>

appendPolyFeatures(grid, cityio) ==
    [k \in 1..Len(grid) |-> PolyToGeoJSON(pointlist(cityio, k - 1), k - 1, EmptyDict)]
makeGeoJSON(grid, cityio) ==
    [type |-> "FeatureCollection", features |-> appendPolyFeatures(grid, cityio)]

\* A filter that numbers the kept features anew, from 0.
RECURSIVE Kept(_)
Kept(fs) == IF fs = <<>> THEN <<>>
            ELSE IF Head(fs).properties = EmptyDict THEN Kept(Tail(fs))
            ELSE <<Head(fs)>> \o Kept(Tail(fs))
FilterRenumbered(fs) == [k \in 1..Len(Kept(fs)) |->
                           [Kept(fs)[k] EXCEPT !.id = str(k - 1)]]

\* remove_empty_cells_from_geojson (516-517): keep the features whose
\* properties are not {}.
RECURSIVE Filter(_)
Filter(fs) == IF fs = <<>> THEN <<>>
              ELSE IF Head(fs).properties = EmptyDict THEN Filter(Tail(fs))
              ELSE <<Head(fs)>> \o Filter(Tail(fs))
remove_empty_cells_from_geojson(g) == [g EXCEPT !.features = Filter(@)]

(***************************************************************************)
(* The body of the cell loop of run (542-582), as operators on the         *)
(* accumulators.  Each returns the accumulators it leaves and the          *)
(* exception it raised ("" when none): a category missing from the catalog *)
(* raises KeyError at the first membership test that reads it, after the   *)
(* additions of the tests before it.                                       *)
(***************************************************************************)
Acc(e, x, y, z) == [err |-> e, a1 |-> x, a2 |-> y, a3 |-> z]

\* Three independent membership tests of code against the lists k1, k2, k3
\* of one catalog group, each adding area to its own accumulator.
ThreeTests(group, k1, k2, k3, code, area, x, y, z) ==
    IF k1 \notin DOMAIN group THEN Acc("KeyError:typedefs", x, y, z)
    ELSE LET x1 == IF code \in group[k1] THEN x + area ELSE x IN
    IF k2 \notin DOMAIN group THEN Acc("KeyError:typedefs", x1, y, z)
    ELSE LET y1 == IF code \in group[k2] THEN y + area ELSE y IN
    IF k3 \notin DOMAIN group THEN Acc("KeyError:typedefs", x1, y1, z)
    ELSE LET z1 == IF code \in group[k3] THEN z + area ELSE z IN
    Acc("", x1, y1, z1)

\* Ground floor with the tests chained by elif: the first match wins.
GroundFloorUsesExclusive(tj, rec, cellSize, x, y, z) ==
    LET curuse1 == rec.bld_useGround
        curlevels == rec.bld_numLevels
        area == cellSize * cellSize
        group == tj.buildinguses
    IN IF ~(Truthy(curuse1) /\ curlevels > 0) THEN Acc("", x, y, z)
       ELSE IF "living" \notin DOMAIN group THEN Acc("KeyError:typedefs", x, y, z)
       ELSE IF curuse1 \in group.living THEN Acc("", x + area, y, z)
       ELSE IF "commerce" \notin DOMAIN group THEN Acc("KeyError:typedefs", x, y, z)
       ELSE IF curuse1 \in group.commerce THEN Acc("", x, y + area, z)
       ELSE IF "special" \notin DOMAIN group THEN Acc("KeyError:typedefs", x, y, z)
       ELSE IF curuse1 \in group.special THEN Acc("", x, y, z + area)
       ELSE Acc("", x, y, z)

\* Ground floor counted whatever the number of levels.
GroundFloorUsesUngated(tj, rec, cellSize, x, y, z) ==
    LET curuse1 == rec.bld_useGround
    IN IF Truthy(curuse1)
       THEN ThreeTests(tj.buildinguses, "living", "commerce", "special",
                       curuse1, cellSize * cellSize, x, y, z)
       ELSE Acc("", x, y, z)

\* 558-565: ground floor uses.
GroundFloorUses(tj, rec, cellSize, x, y, z) ==
    LET curuse1 == rec.bld_useGround
        curlevels == rec.bld_numLevels
    IN IF Truthy(curuse1) /\ curlevels > 0
       THEN ThreeTests(tj.buildinguses, "living", "commerce", "special",
                       curuse1, cellSize * cellSize, x, y, z)
       ELSE Acc("", x, y, z)

\* Upper floors with commerce and special tested on the ground-floor code.
UpperFloorUsesGroundCode(tj, rec, cellSize, x, y, z) ==
    LET curuse1 == rec.bld_useGround
        curusen == rec.bld_useUpper
        curlevels == rec.bld_numLevels
        area == cellSize * cellSize * (curlevels - 1)
        rn == ThreeTests(tj.buildinguses, "living", "commerce", "special",
                         curusen, area, x, y, z)
        r1 == ThreeTests(tj.buildinguses, "living", "commerce", "special",
                         curuse1, area, x, y, z)
    IN IF Truthy(curusen) /\ curlevels > 1
       THEN Acc(rn.err, rn.a1, r1.a2, r1.a3)
       ELSE Acc("", x, y, z)

\* Upper floors counting every level, the ground floor included.
UpperFloorUsesAllLevels(tj, rec, cellSize, x, y, z) ==
    LET curusen == rec.bld_useUpper
        curlevels == rec.bld_numLevels
    IN IF Truthy(curusen) /\ curlevels > 0
       THEN ThreeTests(tj.buildinguses, "living", "commerce", "special",
                       curusen, cellSize * cellSize * curlevels, x, y, z)
       ELSE Acc("", x, y, z)

\* 566-573: upper floor uses.
UpperFloorUses(tj, rec, cellSize, x, y, z) ==
    LET curusen == rec.bld_useUpper
        curlevels == rec.bld_numLevels
    IN IF Truthy(curusen) /\ curlevels > 1
       THEN ThreeTests(tj.buildinguses, "living", "commerce", "special",
                       curusen, cellSize * cellSize * (curlevels - 1), x, y, z)
       ELSE Acc("", x, y, z)

\* Open space with the tests chained by elif: the first match wins.
OpenSpaceUsesExclusive(tj, rec, cellSize, x, y, z) ==
    LET curuse == rec.os_type
        area == cellSize * cellSize
        group == tj.openspacetypes
    IN IF "green" \notin DOMAIN group THEN Acc("KeyError:typedefs", x, y, z)
       ELSE IF curuse \in group.green THEN Acc("", x + area, y, z)
       ELSE IF "sports" \notin DOMAIN group THEN Acc("KeyError:typedefs", x, y, z)
       ELSE IF curuse \in group.sports THEN Acc("", x, y + area, z)
       ELSE IF "playgrounds" \notin DOMAIN group THEN Acc("KeyError:typedefs", x, y, z)
       ELSE IF curuse \in group.playgrounds THEN Acc("", x, y, z + area)
       ELSE Acc("", x, y, z)

\* 575-582: open space types.
OpenSpaceUses(tj, rec, cellSize, x, y, z) ==
    LET curuse == rec.os_type
    IN ThreeTests(tj.openspacetypes, "green", "sports", "playgrounds",
                  curuse, cellSize * cellSize, x, y, z)

\* Properties attached only to buildings that have a level to count.
AttachPropertiesIfLevels(g, id, rec) ==
    IF rec.bld_numLevels > 0
      THEN [g EXCEPT !.features[id + 1].properties =
              [bld_useGround |-> rec.bld_useGround,
               bld_useUpper  |-> rec.bld_useUpper,
               bld_numLevels |-> rec.bld_numLevels]]
      ELSE g

\* 552-556: the building attributes become the properties of the feature at
\* the cell's index.
AttachProperties(g, id, rec) ==
    [g EXCEPT !.features[id + 1].properties =
        [bld_useGround |-> rec.bld_useGround,
         bld_useUpper  |-> rec.bld_useUpper,
         bld_numLevels |-> rec.bld_numLevels]]

\* 586-593: the result handed to sendToCityIO.
Result(g) ==
    [living |-> bld_living, living_expected |-> 400000,
     commerce |-> bld_commerce, commerce_expected |-> 550000,
     special |-> bld_special, special_expected |-> 30000,
     green |-> os_green, green_expected |-> 80000,
     sports |-> os_sports, sports_expected |-> 10000,
     playgrounds |-> os_play, playgrounds_expected |-> 10000,
     features |-> g.features,
     grid_hash |-> run_gridHash]

(***************************************************************************)
(* The cycle.                                                              *)
(***************************************************************************)
InitWith(services, at) ==
    /\ pc = at
    /\ err = ""
    /\ header = EmptyDict
    /\ gridDef = EmptyDict
    /\ gridData = <<>>
    /\ geojson = EmptyDict
    /\ typejs = EmptyDict
    /\ cell_id = 0
    /\ bld_living = 0 /\ bld_commerce = 0 /\ bld_special = 0
    /\ os_green = 0 /\ os_sports = 0 /\ os_play = 0
    /\ sent = <<>>
    /\ service \in services
    /\ changes = 0
    /\ oldHash = EmptyString
    /\ gridHash = EmptyString
    /\ run_gridHash = EmptyString

Init == InitWith(Services, "start")

Abort(e) == pc' = "aborted" /\ err' = e

\* 522: fetch the header and build the Table; a missing entry ends the cycle.
FromCityIO ==
    /\ pc = "start"
    /\ LET data == getCurrentState("header")
           r == fromCityIO(data) IN
         /\ header' = data
         /\ IF r.ok THEN /\ gridDef' = r.table
                      /\ pc' = "fetch"
                      /\ err' = err
                 ELSE /\ Abort(r.error)
                      /\ gridDef' = gridDef
    /\ UNCHANGED <<gridData, geojson, typejs, cell_id, totals, sent,
                   env, poll, run_gridHash>>

\* 527: fetch the grid.
FetchGrid ==
    /\ pc = "fetch"
    /\ gridData' = getCurrentState("grid")
    /\ pc' = "hash"
    /\ UNCHANGED <<err, header, gridDef, geojson, typejs, cell_id, totals, sent,
                   env, poll, run_gridHash>>

\* 528-540: fetch the hash, build the features, load the catalog, zero the
\* accumulators.
Prepare ==
    /\ pc = "hash"
    /\ run_gridHash' = getCurrentState("meta/hashes/grid")
    /\ geojson' = makeGeoJSON(gridData, gridDef)
    /\ typejs' \in Typedefs
    /\ bld_living' = 0 /\ bld_commerce' = 0 /\ bld_special' = 0
    /\ os_green' = 0 /\ os_sports' = 0 /\ os_play' = 0
    /\ cell_id' = 0
    /\ pc' = "loop"
    /\ UNCHANGED <<err, header, gridDef, gridData, sent, env, poll>>

\* The cell the loop is at, its type-index and its mapping entry.
CurCell == gridData[cell_id + 1]
CurIndex == PyGet(CurCell, gridDef.typeidx)
CurRecord == PyGet(gridDef.mapping, CurIndex)

Continue == pc' = "loop" /\ cell_id' = cell_id + 1 /\ err' = err

\* 542-556: take the next cell, skip it or classify it.
NextCell ==
    /\ pc = "loop"
    /\ cell_id < Len(gridData)
    /\ IF CurCell = NullCell
         THEN Continue /\ geojson' = geojson
       ELSE IF ~PyIndexOK(gridDef.mapping, CurIndex)
         THEN Abort("IndexError:mapping") /\ UNCHANGED <<cell_id, geojson>>
       ELSE IF "type" \notin DOMAIN CurRecord
         THEN Continue /\ geojson' = geojson
       ELSE IF CurRecord.type = "building"
         THEN /\ geojson' = AttachProperties(geojson, cell_id, CurRecord)
              /\ pc' = "ground"
              /\ UNCHANGED <<cell_id, err>>
       ELSE IF CurRecord.type = "open_space"
         THEN pc' = "open_space" /\ UNCHANGED <<cell_id, err, geojson>>
       ELSE Continue /\ geojson' = geojson
    /\ UNCHANGED <<header, gridDef, gridData, typejs, totals, sent,
                   env, poll, run_gridHash>>

\* 558-565
GroundFloor ==
    /\ pc = "ground"
    /\ LET r == GroundFloorUses(typejs, CurRecord, gridDef.cellSize,
                                bld_living, bld_commerce, bld_special) IN
         /\ bld_living' = r.a1 /\ bld_commerce' = r.a2 /\ bld_special' = r.a3
         /\ IF r.err = "" THEN pc' = "upper" /\ err' = err
                          ELSE Abort(r.err)
    /\ UNCHANGED <<header, gridDef, gridData, geojson, typejs, cell_id,
                   os_green, os_sports, os_play, sent, env, poll, run_gridHash>>

\* 566-573
UpperFloor ==
    /\ pc = "upper"
    /\ LET r == UpperFloorUses(typejs, CurRecord, gridDef.cellSize,
                               bld_living, bld_commerce, bld_special) IN
         /\ bld_living' = r.a1 /\ bld_commerce' = r.a2 /\ bld_special' = r.a3
         /\ IF r.err = "" THEN Continue
                          ELSE Abort(r.err) /\ cell_id' = cell_id
    /\ UNCHANGED <<header, gridDef, gridData, geojson, typejs,
                   os_green, os_sports, os_play, sent, env, poll, run_gridHash>>

\* 575-582
OpenSpace ==
    /\ pc = "open_space"
    /\ LET r == OpenSpaceUses(typejs, CurRecord, gridDef.cellSize,
                              os_green, os_sports, os_play) IN
         /\ os_green' = r.a1 /\ os_sports' = r.a2 /\ os_play' = r.a3
         /\ IF r.err = "" THEN Continue
                          ELSE Abort(r.err) /\ cell_id' = cell_id
    /\ UNCHANGED <<header, gridDef, gridData, geojson, typejs,
                   bld_living, bld_commerce, bld_special, sent,
                   env, poll, run_gridHash>>

\* 584-595: drop the features without properties and post the result.
Finish ==
    /\ pc = "loop"
    /\ cell_id = Len(gridData)
    /\ geojson' = remove_empty_cells_from_geojson(geojson)
    /\ sent' = Append(sent, Result(geojson'))
    /\ pc' = "done"
    /\ UNCHANGED <<err, header, gridDef, gridData, typejs, cell_id, totals,
                   env, poll, run_gridHash>>

Next == FromCityIO \/ FetchGrid \/ Prepare \/ NextCell \/ GroundFloor \/ UpperFloor
          \/ OpenSpace \/ Finish

Spec == Init /\ [][Next]_vars

\* The cycle up to the features, on the services for the geometry.
GeoInit == InitWith(GeoServices, "start")
GeoNext == FromCityIO \/ FetchGrid \/ Prepare
GeoSpec == GeoInit /\ [][GeoNext]_vars

(***************************************************************************)
(* The polling loop (676-685) around the cycle, and the service changing   *)
(* under it.                                                               *)
(***************************************************************************)
runVars == <<err, header, gridDef, gridData, geojson, typejs, cell_id, totals,
             sent, run_gridHash>>

\* A test that starts a cycle on every hash that was fetched.
ShouldRunOnAnyHash(fetched, recorded) == fetched /= EmptyDict

\* 680: the test that starts a cycle.
ShouldRun(fetched, recorded) == fetched /= EmptyDict /\ fetched /= recorded

\* 679-685: fetch the hash; call run on a new one, else wait and poll again.
Poll ==
    /\ pc = "poll"
    /\ gridHash' = getCurrentState("meta/hashes/grid")
    /\ IF ShouldRun(gridHash', oldHash) THEN pc' = "start" ELSE pc' = "poll"
    /\ UNCHANGED <<runVars, env, oldHash>>

\* 682: run has returned; record the hash fetched before it.
Return ==
    /\ pc = "done"
    /\ oldHash' = gridHash
    /\ pc' = "poll"
    /\ UNCHANGED <<runVars, env, gridHash>>

\* The grid held by the service is replaced by another one.
GridChange ==
    /\ changes < MaxChanges
    /\ \E g \in LoopGrids \ {service.grid} :
         service' = [service EXCEPT !.grid = g]
    /\ changes' = changes + 1
    /\ UNCHANGED <<pc, runVars, poll>>

\* The service stops answering, or answers again.
Outage ==
    /\ changes < MaxChanges
    /\ service' = [service EXCEPT !.reachable = ~@]
    /\ changes' = changes + 1
    /\ UNCHANGED <<pc, runVars, poll>>

LoopInit == InitWith(LoopServices, "poll")
LoopNext == Poll \/ Return \/ GridChange \/ Outage \/ Next
LoopSpec == LoopInit /\ [][LoopNext]_vars

TypeOK ==
    /\ pc \in {"poll", "start", "fetch", "hash", "loop", "ground", "upper", "open_space",
               "done", "aborted"}
    /\ pc \in {"loop", "ground", "upper", "open_space"} => cell_id \in 0..Len(gridData)
    /\ \A k \in 1..6 : totals[k] \in Nat
    /\ Len(sent) <= MaxChanges + 1

(***************************************************************************)
(* Vocabulary of the properties.                                           *)
(***************************************************************************)
\* The type record of the cell at index i, when it resolves to one.
Resolves(i) == /\ i \in 0..(Len(gridData) - 1)
               /\ gridData[i + 1] /= NullCell
               /\ PyIndexOK(gridDef.mapping, PyGet(gridData[i + 1], gridDef.typeidx))
RecordAt(i) == PyGet(gridDef.mapping, PyGet(gridData[i + 1], gridDef.typeidx))
HasType(i, t) == Resolves(i) /\ "type" \in DOMAIN RecordAt(i) /\ RecordAt(i).type = t
IsBuilding(i) == HasType(i, "building")
IsOpenSpace(i) == HasType(i, "open_space")

\* Area of one cell, and the area a code earns in a category of a group.
CellArea == gridDef.cellSize * gridDef.cellSize
Listed(group, cat, code) == cat \in DOMAIN typejs[group] /\ code \in typejs[group][cat]
Earned(group, cat, code, area) == IF Listed(group, cat, code) THEN area ELSE 0

bldTotals == <<bld_living, bld_commerce, bld_special>>
osTotals == <<os_green, os_sports, os_play>>

\* C1: the upper-floor step of a building cell whose bld_useUpper is truthy
\* and whose bld_numLevels exceeds 1 adds cellSize*cellSize*(numLevels-1) to
\* exactly the building categories whose list contains bld_useUpper, and
\* nothing to the others; the ground-floor code plays no part.
C1_UpperFloorArea ==
    [][(/\ pc = "upper" /\ pc' = "loop"
        /\ Truthy(RecordAt(cell_id).bld_useUpper)
        /\ RecordAt(cell_id).bld_numLevels > 1)
       => LET u == RecordAt(cell_id).bld_useUpper
              area == CellArea * (RecordAt(cell_id).bld_numLevels - 1)
          IN /\ bld_living' = bld_living + Earned("buildinguses", "living", u, area)
             /\ bld_commerce' = bld_commerce + Earned("buildinguses", "commerce", u, area)
             /\ bld_special' = bld_special + Earned("buildinguses", "special", u, area)
             /\ osTotals' = osTotals]_vars

\* A first cell with ground code "b" (unlisted) and upper code "a" on two
\* levels has earned one cell area in commerce, where "a" is listed.
C1_Witness ==
    /\ pc = "loop" /\ cell_id = 1 /\ IsBuilding(0)
    /\ RecordAt(0).bld_useGround = "b" /\ RecordAt(0).bld_useUpper = "a"
    /\ RecordAt(0).bld_numLevels = 2
    /\ bld_commerce = CellArea /\ bld_living = CellArea /\ bld_special = CellArea

\* C2: the ground-floor step of a building cell whose bld_useGround is truthy
\* and whose bld_numLevels exceeds 0 adds cellSize*cellSize to every building
\* category whose list contains bld_useGround, each test on its own.
C2_GroundFloorArea ==
    [][(/\ pc = "ground" /\ pc' = "upper"
        /\ Truthy(RecordAt(cell_id).bld_useGround)
        /\ RecordAt(cell_id).bld_numLevels > 0)
       => LET g == RecordAt(cell_id).bld_useGround
          IN /\ bld_living' = bld_living + Earned("buildinguses", "living", g, CellArea)
             /\ bld_commerce' = bld_commerce + Earned("buildinguses", "commerce", g, CellArea)
             /\ bld_special' = bld_special + Earned("buildinguses", "special", g, CellArea)
             /\ osTotals' = osTotals]_vars

\* A first cell of one level whose ground code is listed in all three
\* building categories has earned one cell area in each of them.
C2_Witness ==
    /\ pc = "loop" /\ cell_id = 1 /\ IsBuilding(0)
    /\ RecordAt(0).bld_useGround = "a" /\ RecordAt(0).bld_numLevels = 1
    /\ bld_living = CellArea /\ bld_commerce = CellArea /\ bld_special = CellArea

\* C3: no step taken on a building cell with bld_numLevels = 0 changes any of
\* the six totals, whatever its use-codes and the catalog.
C3_ZeroLevels ==
    [][(/\ pc \in {"loop", "ground", "upper"}
        /\ IsBuilding(cell_id)
        /\ RecordAt(cell_id).bld_numLevels = 0)
       => totals' = totals]_vars

\* A first cell with no level and both codes listed has been passed and has
\* left every total at zero.
C3_Witness ==
    /\ pc = "loop" /\ cell_id = 1 /\ IsBuilding(0)
    /\ RecordAt(0).bld_numLevels = 0
    /\ RecordAt(0).bld_useGround = "a" /\ RecordAt(0).bld_useUpper = "a"
    /\ Listed("buildinguses", "living", "a")
    /\ totals = <<0, 0, 0, 0, 0, 0>>

\* C4: on a building cell with bld_numLevels = 1 the upper-floor step adds
\* nothing even when bld_useUpper is listed, and the ground-floor step adds
\* cellSize*cellSize per category matched by a truthy bld_useGround.
C4_OneLevel ==
    [][(IsBuilding(cell_id) /\ RecordAt(cell_id).bld_numLevels = 1)
       => /\ pc = "upper" => totals' = totals
          /\ (pc = "ground" /\ pc' = "upper") =>
               LET g == RecordAt(cell_id).bld_useGround
                   area == IF Truthy(g) THEN CellArea ELSE 0
               IN /\ Truthy(g) =>
                       /\ bld_living' = bld_living + Earned("buildinguses", "living", g, area)
                       /\ bld_commerce' = bld_commerce + Earned("buildinguses", "commerce", g, area)
                       /\ bld_special' = bld_special + Earned("buildinguses", "special", g, area)
                  /\ ~Truthy(g) => bldTotals' = bldTotals
                  /\ osTotals' = osTotals]_vars

\* A first cell of one level with both codes listed in living has earned
\* exactly one cell area there.
C4_Witness ==
    /\ pc = "loop" /\ cell_id = 1 /\ IsBuilding(0)
    /\ RecordAt(0).bld_numLevels = 1
    /\ RecordAt(0).bld_useGround = "a" /\ RecordAt(0).bld_useUpper = "a"
    /\ Listed("buildinguses", "living", "a")
    /\ bld_living = CellArea

\* C5: the step of an open_space cell adds cellSize*cellSize to every open
\* space category whose list contains its os_type and leaves living, commerce
\* and special alone; no step of a building cell changes green, sports or
\* playgrounds.
C5_OpenSpaceArea ==
    [][/\ (pc = "open_space" /\ pc' = "loop") =>
            LET t == RecordAt(cell_id).os_type
            IN /\ IsOpenSpace(cell_id)
               /\ os_green' = os_green + Earned("openspacetypes", "green", t, CellArea)
               /\ os_sports' = os_sports + Earned("openspacetypes", "sports", t, CellArea)
               /\ os_play' = os_play + Earned("openspacetypes", "playgrounds", t, CellArea)
               /\ bldTotals' = bldTotals
       /\ (pc \in {"loop", "ground", "upper"} /\ IsBuilding(cell_id)) =>
            osTotals' = osTotals
       /\ (pc = "loop" /\ IsOpenSpace(cell_id)) => totals' = totals]_vars

\* A first open_space cell whose type is listed in all three open space
\* categories has earned one cell area in each and none in the building ones.
C5_Witness ==
    /\ pc = "loop" /\ cell_id = 1 /\ IsOpenSpace(0)
    /\ Listed("buildinguses", "living", RecordAt(0).os_type)
    /\ osTotals = <<CellArea, CellArea, CellArea>>
    /\ bldTotals = <<0, 0, 0>>

\* C6: a non-null cell whose type-index has no entry in the type mapping, or
\* whose entry has no "type" field, is skipped: the loop moves to the next
\* cell with the totals and the features untouched.
C6_UnresolvedCellSkipped ==
    [][(/\ pc = "loop" /\ cell_id < Len(gridData)
        /\ CurCell /= NullCell
        /\ \/ ~PyIndexOK(gridDef.mapping, CurIndex)
           \/ "type" \notin DOMAIN CurRecord)
       => /\ pc' = "loop" /\ cell_id' = cell_id + 1
          /\ totals' = totals /\ geojson' = geojson]_vars

\* C7: when the catalog lacks a category, no aggregation step fails; the
\* missing category counts as listing no code.
CatalogComplete ==
    /\ DOMAIN typejs.buildinguses = {"living", "commerce", "special"}
    /\ DOMAIN typejs.openspacetypes = {"green", "sports", "playgrounds"}
C7_MissingCategoryTolerated ==
    [][(pc \in {"ground", "upper", "open_space"} /\ ~CatalogComplete)
       => pc' /= "aborted"]_vars

\* C8: before the filter the feature at position k carries the id str(k-1);
\* the posted features are the features that had properties, unchanged, in
\* ascending order of the index their id names: none is renumbered.
HadProperties == {i \in 0..(Len(gridData) - 1) :
                    geojson.features[i + 1].properties /= EmptyDict}
C8_IdsNotRenumbered ==
    [][/\ pc \in {"loop", "ground", "upper", "open_space"} =>
            /\ Len(geojson.features) = Len(gridData)
            /\ \A k \in 1..Len(gridData) : geojson.features[k].id = str(k - 1)
       /\ (pc = "loop" /\ pc' = "done") =>
            LET fs == sent'[1].features IN
            /\ Len(fs) = Cardinality(HadProperties)
            /\ \A k \in 1..Len(fs) : \E i \in HadProperties :
                 /\ fs[k] = geojson.features[i + 1]
                 /\ fs[k].id = str(i)
                 /\ \A l \in 1..(k - 1) : \E j \in HadProperties :
                      j < i /\ fs[l].id = str(j)]_vars

\* A grid of two cells of which only the second is a building: the one posted
\* feature has id "1".
C8_Witness ==
    /\ pc = "done" /\ Len(gridData) = 2
    /\ ~IsBuilding(0) /\ IsBuilding(1)
    /\ Len(sent[1].features) = 1
    /\ sent[1].features[1].id = "1"

\* C9: during the loop the feature of every building cell already classified
\* carries its three building attributes and every other feature has empty
\* properties; the posted result holds exactly the features of the building
\* cells, with those attributes.
BuildingProperties(i) == [bld_useGround |-> RecordAt(i).bld_useGround,
                          bld_useUpper  |-> RecordAt(i).bld_useUpper,
                          bld_numLevels |-> RecordAt(i).bld_numLevels]
Classified(i) == i < cell_id \/ (i = cell_id /\ pc \in {"ground", "upper"})
C9_BuildingFeatures ==
    /\ pc \in {"loop", "ground", "upper", "open_space"} =>
         \A i \in 0..(Len(gridData) - 1) :
            geojson.features[i + 1].properties =
               IF Classified(i) /\ IsBuilding(i) THEN BuildingProperties(i)
                                                 ELSE EmptyDict
    /\ pc = "done" =>
         LET fs == sent[1].features IN
         /\ \A i \in 0..(Len(gridData) - 1) :
              IsBuilding(i) <=> \E k \in 1..Len(fs) : fs[k].id = str(i)
         /\ \A k \in 1..Len(fs) : \E i \in 0..(Len(gridData) - 1) :
              /\ IsBuilding(i) /\ fs[k].id = str(i)
              /\ fs[k].properties = BuildingProperties(i)

\* An open_space cell followed by a building without level or use: only the
\* building's feature is posted, with its attributes.
C9_Witness ==
    /\ pc = "done" /\ Len(gridData) = 2
    /\ IsOpenSpace(0) /\ IsBuilding(1)
    /\ RecordAt(1).bld_numLevels = 0
    /\ RecordAt(1).bld_useGround = None /\ RecordAt(1).bld_useUpper = None
    /\ Len(sent[1].features) = 1
    /\ sent[1].features[1].id = "1"
    /\ sent[1].features[1].properties = BuildingProperties(1)

\* C10: once a header lacking spatial.cellSize, spatial.ncols, spatial.nrows,
\* mapping.type or a "type" entry in block has been read, the cycle is
\* aborted with no grid fetched, no cell aggregated and nothing posted; a
\* result is posted only by a cycle that went through every cell, and an
\* aborted cycle has posted nothing.
HeaderComplete(h) ==
    /\ "spatial" \in DOMAIN h
    /\ {"cellSize", "ncols", "nrows"} \subseteq DOMAIN h.spatial
    /\ "mapping" \in DOMAIN h /\ "type" \in DOMAIN h.mapping
    /\ "block" \in DOMAIN h /\ PyHas(h.block, "type")
C10_MalformedHeaderAborts ==
    /\ (pc /= "start" /\ ~HeaderComplete(header)) =>
         /\ pc = "aborted" /\ sent = <<>>
         /\ gridData = <<>> /\ geojson = EmptyDict /\ cell_id = 0
         /\ totals = <<0, 0, 0, 0, 0, 0>>
    /\ sent /= <<>> =>
         /\ pc = "done" /\ HeaderComplete(header)
         /\ cell_id = Len(gridData)
         /\ <<sent[1].living, sent[1].commerce, sent[1].special,
              sent[1].green, sent[1].sports, sent[1].playgrounds>> = totals
    /\ pc = "aborted" => sent = <<>>

\* The header fetch failed and yielded the empty object: the cycle aborted.
C10_Witness ==
    /\ pc = "aborted" /\ header = EmptyDict /\ err = "KeyError:header"
    /\ sent = <<>>

\* C11: the feature of cell idx, at x = idx % ncols and y = idx \div ncols,
\* has one ring of five coordinates: the corners (x,y), (x+1,y), (x+1,y+1),
\* (x,y+1) through Local2Geo and the output transform, in that order, then the
\* first again, each written second component first; with rotation 0 the
\* corner (cx, cy) lies at (cx*cellSize + origin0, -cy*cellSize + origin1)
\* before the output transform.
Corners(x, y) == <<<<x, y>>, <<x + 1, y>>, <<x + 1, y + 1>>, <<x, y + 1>>, <<x, y>>>>
Swapped(p) == <<p[2], p[1]>>
Unrotated(c) == <<c[1] * gridDef.cellSize + gridDef.origin[1],
                  (0 - c[2]) * gridDef.cellSize + gridDef.origin[2]>>
C11_PolygonRing ==
    pc = "loop" =>
      \A idx \in 0..(Len(gridData) - 1) :
        LET f == geojson.features[idx + 1]
            ring == f.geometry.coordinates[1]
            c == Corners(idx % gridDef.ncols, idx \div gridDef.ncols)
        IN /\ f.geometry.type = "Polygon"
           /\ Len(f.geometry.coordinates) = 1
           /\ Len(ring) = 5
           /\ \A k \in 1..5 :
                ring[k] = Swapped(Reprojected(Local2Geo(gridDef, c[k][1], c[k][2])))
           /\ gridDef.tablerotation = 0 =>
                \A k \in 1..5 : ring[k] = Swapped(Reprojected(Unrotated(c[k])))

\* cellSize 10, rotation 0, origin (0, 0), two columns: the ring of cell 0
\* comes from (0,0), (10,0), (10,-10), (0,-10), (0,0) and the ring of cell 3,
\* at x = 1 and y = 1, starts from (10,-10).
C11_Witness ==
    /\ pc = "loop"
    /\ gridDef.cellSize = 10 /\ gridDef.tablerotation = 0
    /\ gridDef.origin = <<0, 0>> /\ gridDef.ncols = 2 /\ Len(gridData) = 4
    /\ geojson.features[1].geometry.coordinates[1] =
         <<Swapped(ComputeToOutput(0, 0)), Swapped(ComputeToOutput(10, 0)),
           Swapped(ComputeToOutput(10, 0 - 10)), Swapped(ComputeToOutput(0, 0 - 10)),
           Swapped(ComputeToOutput(0, 0))>>
    /\ geojson.features[4].geometry.coordinates[1][1] =
         Swapped(ComputeToOutput(10, 0 - 10))

\* C12: a cycle starts only from the polling loop, on a fetched hash that is
\* not {} and differs from the recorded one; a poll that fetches {} or the
\* recorded hash starts none; the recorded hash changes only when run has
\* returned, to the hash fetched before it; no cycle starts while one is in
\* progress.
InCycle == pc \in {"start", "fetch", "hash", "loop", "ground", "upper",
                   "open_space", "done"}
FetchedHash == getCurrentState("meta/hashes/grid")
C12_PollingLoop ==
    [][/\ (pc' = "start" /\ pc /= "start") =>
            /\ pc = "poll"
            /\ gridHash' = FetchedHash
            /\ gridHash' /= EmptyDict /\ gridHash' /= oldHash
       /\ (pc = "poll" /\ (FetchedHash = EmptyDict \/ FetchedHash = oldHash)) =>
            pc' = "poll"
       /\ oldHash' /= oldHash =>
            pc = "done" /\ pc' = "poll" /\ oldHash' = gridHash
       /\ InCycle => (pc' /= "start" \/ pc = "start")]_vars

\* After a first cycle that posted, the grid changed and a second cycle has
\* been started on the new hash.
C12_Witness ==
    /\ pc = "start" /\ Len(sent) = 1
    /\ oldHash /= EmptyString /\ gridHash /= oldHash
    /\ gridHash = Hash(service.grid)

\* C13: the grid_hash of a posted result is the hash of the grid its totals
\* and features were computed from, whenever both the grid and the hash
\* were actually received from the service.
C13_HashOfAggregatedGrid ==
    (pc = "done" /\ gridData /= EmptyDict
                 /\ sent[Len(sent)].grid_hash /= EmptyDict)
       => sent[Len(sent)].grid_hash = Hash(gridData)

====
